---- MODULE Spec2Model ----
(***************************************************************************)
(* Company-Profile-AI-Generator: the template scanner and substitution of  *)
(* html_generator.py, the Gemini client of companies_profile.py, the PDF   *)
(* compiler of compiler.py, the command-line pipeline of main.py and the   *)
(* worker thread and window of app_ui.py.                                  *)
(*                                                                         *)
(* Text is a sequence of one-character strings.                            *)
(***************************************************************************)
EXTENDS Integers, Sequences, FiniteSets, TLC

\* ------------------------------------------------------------------ bounds

\* A template is at most this many chunks of text (template scanning).
MaxChunks == 4

\* A template is at most this many chunks of text (substitution).
MaxHtmlChunks == 2

\* A company_info dict has at most this many keys.
MaxKeys == 2

\* query_gemini is called at most this many times on one generator.
MaxCalls == 2

\* A company name has at most this many characters.
MaxNameLen == 3

\* The AI's answer is at most this many chunks of text.
MaxTextChunks == 3

\* The directory holds at most this many .html files.
MaxHtmlFiles == 3

\* OUTPUT_DIR holds at most this many *_data.json files before main() runs.
MaxOldData == 5

\* The window makes at most this many workers.
MaxWorkers == 2

\* A worker is given at most this many companies.
MaxCompanies == 2

\* ------------------------------------------------------------------- state

VARIABLES
    template_exists,    \* self.template_path.exists()
    template_readable,  \* open(self.template_path) and read() succeed
    template_content,   \* the text of the template file
    tpl_call,           \* the last call on the HtmlProfileGenerator
    tpl_arg,            \* its argument (company_info, or the data file loaded)
    tpl_now,            \* the clock reading of that call
    tpl_ret,            \* what that call returned
    html_file           \* the <safe_name>_profile.html written: [name, text], or <<>>

tplVars == <<template_exists, template_readable, template_content,
             tpl_call, tpl_arg, tpl_now, tpl_ret, html_file>>

VARIABLES
    working_model,      \* self.working_model: "None" or the model's name
    gem_pc,             \* where query_gemini stands
    attempt,            \* the loop variable of query_gemini
    gem_log,            \* the responses to this call's generation requests
    gem_waits,          \* the 20-second waits of this call
    gem_probes,         \* the model tests find_working_model sent in this call
    gem_result,         \* what the call returned
    gem_calls           \* the calls of query_gemini so far

gemVars == <<working_model, gem_pc, attempt, gem_log, gem_waits, gem_probes,
             gem_result, gem_calls>>

VARIABLES
    company_name,       \* process_company's argument
    dir_writable,       \* whether open(fname, 'w') in the output directory succeeds
    proc_pc,            \* "called", "returned" or "raised"
    proc_text,          \* what query_gemini returned to generate_company_info
    proc_ret,           \* process_company's return value: [success, fname]
    proc_files          \* the files process_company wrote: [name, text]

procVars == <<company_name, dir_writable, proc_pc, proc_text, proc_ret, proc_files>>

VARIABLES
    weasyprint_available,   \* compiler.WEASYPRINT_AVAILABLE
    dir_exists,             \* base_path.exists()
    dir_html,               \* the *.html files of the directory
    pdf_pc,                 \* where compile_html_to_pdf stands
    html_files,             \* the files of the glob not yet visited by the loop
    pdf_attempts,           \* how often write_pdf was called, per file
    success_count,
    failed_files,
    dir_pdf,                \* the .pdf files written
    pdf_result              \* the return value

pdfVars == <<weasyprint_available, dir_exists, dir_html, pdf_pc, html_files,
             pdf_attempts, success_count, failed_files, dir_pdf, pdf_result>>

VARIABLES
    env_api_key,        \* os.getenv("GEMINI_API_KEY"): "" when unset
    out_data,           \* the *_data.json files of OUTPUT_DIR
    main_pc,            \* where main() stands
    main_generated,     \* the companies step 1 generated a profile for
    main_reached        \* the steps main() has announced

mainVars == <<env_api_key, out_data, main_pc, main_generated, main_reached>>

VARIABLES
    start_btn,          \* self.start_btn.isEnabled()
    stop_btn,           \* self.stop_btn.isEnabled()
    self_worker,        \* self.worker: the worker made last, 0 before the first
    worker,             \* the PipelineWorker objects made so far, by number
    signals,            \* finished and error signals emitted, not yet handled
    fs_data,            \* the companies with a <safe_name>_data.json in output_dir
    fs_logo,            \* ... with a <safe_name>_logo.png
    fs_html             \* the data files the HTML loop has been through (BuildHtml is the pass)

appVars == <<start_btn, stop_btn, self_worker, worker, signals, fs_data, fs_logo, fs_html>>

vars == <<tplVars, gemVars, procVars, pdfVars, mainVars, appVars>>

exceptTpl == <<gemVars, procVars, pdfVars, mainVars, appVars>>
exceptGem == <<tplVars, procVars, pdfVars, mainVars, appVars>>
exceptProc == <<tplVars, gemVars, pdfVars, mainVars, appVars>>
exceptPdf == <<tplVars, gemVars, procVars, mainVars, appVars>>
exceptMain == <<tplVars, gemVars, procVars, pdfVars, appVars>>
exceptApp == <<tplVars, gemVars, procVars, pdfVars, mainVars>>

\* No template file, no call on an HtmlProfileGenerator.
TplIdle ==
    /\ template_exists = FALSE
    /\ template_readable = FALSE
    /\ template_content = <<>>
    /\ tpl_call = "none"
    /\ tpl_arg = <<>>
    /\ tpl_now = <<>>
    /\ tpl_ret = <<>>
    /\ html_file = <<>>

\* The state of a CorporateProfileGenerator that was never called.
GemIdle ==
    /\ working_model = "None"
    /\ gem_pc = "idle"
    /\ attempt = 0
    /\ gem_log = <<>>
    /\ gem_waits = 0
    /\ gem_probes = 0
    /\ gem_result = "None"
    /\ gem_calls = 0

\* query_gemini's None, and its text.
NoAnswer == [none |-> TRUE, text |-> <<>>]
Answer(text) == [none |-> FALSE, text |-> text]

\* process_company was not called.
ProcIdle ==
    /\ company_name = <<>>
    /\ dir_writable = TRUE
    /\ proc_pc = "idle"
    /\ proc_text = NoAnswer
    /\ proc_ret = <<>>
    /\ proc_files = {}

\* compile_html_to_pdf was not called, on an empty directory.
PdfIdle ==
    /\ weasyprint_available = TRUE
    /\ dir_exists = TRUE
    /\ dir_html = {}
    /\ pdf_pc = "idle"
    /\ html_files = {}
    /\ pdf_attempts = <<>>
    /\ success_count = 0
    /\ failed_files = <<>>
    /\ dir_pdf = {}
    /\ pdf_result = "None"

\* main() was not started.
MainIdle ==
    /\ env_api_key = ""
    /\ out_data = {}
    /\ main_pc = "idle"
    /\ main_generated = {}
    /\ main_reached = <<>>

\* No window.
AppIdle ==
    /\ start_btn = FALSE
    /\ stop_btn = FALSE
    /\ self_worker = 0
    /\ worker = <<>>
    /\ signals = <<>>
    /\ fs_data = {}
    /\ fs_logo = {}
    /\ fs_html = {}

\* ---------------------------------------------------------------- characters

Lower == {"a", "b", "c", "e", "f", "g", "i", "l", "m", "n", "o", "p", "r", "s", "t", "u"}
Upper == {"Z"}
Digits == {"0", "1", "9"}

\* The class [a-zA-Z0-9_] of the scanner's pattern.
ScanIdChars == Lower \cup Upper \cup Digits \cup {"_"}

\* Code points, the order Python compares str by.
CodePoint(c) ==
    CASE c = "$" -> 36 [] c = "-" -> 45
      [] c = "0" -> 48 [] c = "1" -> 49 [] c = "9" -> 57
      [] c = "Z" -> 90 [] c = "_" -> 95
      [] c = "a" -> 97 [] c = "b" -> 98 [] c = "c" -> 99 [] c = "e" -> 101
      [] c = "f" -> 102 [] c = "g" -> 103 [] c = "i" -> 105 [] c = "l" -> 108
      [] c = "m" -> 109 [] c = "n" -> 110 [] c = "o" -> 111 [] c = "p" -> 112
      [] c = "r" -> 114 [] c = "s" -> 115 [] c = "t" -> 116 [] c = "u" -> 117
      [] c = "{" -> 123 [] c = "}" -> 125
      [] OTHER -> 0

\* str < str: lexicographic by code point, a proper prefix first.
RECURSIVE StrLess(_, _)
StrLess(s, t) ==
    IF t = <<>> THEN FALSE
    ELSE IF s = <<>> THEN TRUE
    ELSE IF CodePoint(Head(s)) # CodePoint(Head(t))
         THEN CodePoint(Head(s)) < CodePoint(Head(t))
    ELSE StrLess(Tail(s), Tail(t))

ToSet(seq) == {seq[i] : i \in 1..Len(seq)}

\* sorted(): the elements of S in ascending order.
RECURSIVE Sorted(_)
Sorted(S) ==
    IF S = {} THEN <<>>
    ELSE LET m == CHOOSE x \in S : \A y \in S : x = y \/ StrLess(x, y)
         IN <<m>> \o Sorted(S \ {m})

\* sep.join(parts)
RECURSIVE Join(_, _)
Join(sep, parts) ==
    IF parts = <<>> THEN <<>>
    ELSE IF Len(parts) = 1 THEN parts[1]
    ELSE parts[1] \o sep \o Join(sep, Tail(parts))

\* The longest run of characters of class cls in s from position i: its end
\* (i - 1 when s[i] is not in cls).
RECURSIVE RunEnd(_, _, _)
RunEnd(s, i, cls) ==
    IF i <= Len(s) /\ s[i] \in cls THEN RunEnd(s, i + 1, cls) ELSE i - 1

\* ------------------------------------------------------- html_generator.py

W_timestamp == <<"t", "i", "m", "e", "s", "t", "a", "m", "p">>
W_case_number == <<"c", "a", "s", "e", "_", "n", "u", "m", "b", "e", "r">>
W_logo_filename == <<"l", "o", "g", "o", "_", "f", "i", "l", "e", "n", "a", "m", "e">>

SYSTEM_VARIABLES == {W_timestamp, W_case_number, W_logo_filename}

\* re.findall(r'\$\{([a-zA-Z0-9_]+)\}', content) from position i: the captured
\* identifiers of the leftmost non-overlapping matches, in order.
RECURSIVE FindAll(_, _)
FindAll(content, i) ==
    IF i > Len(content) THEN <<>>
    ELSE IF content[i] = "$" /\ i + 1 <= Len(content) /\ content[i + 1] = "{"
         THEN LET e == RunEnd(content, i + 2, ScanIdChars)
              IN IF e >= i + 2 /\ e + 1 <= Len(content) /\ content[e + 1] = "}"
                 THEN <<SubSeq(content, i + 2, e)>> \o FindAll(content, e + 2)
                 ELSE FindAll(content, i + 1)
    ELSE FindAll(content, i + 1)

AiRequiredVarsKeepSystem(found_vars) == ToSet(found_vars)

\* set(found_vars) - self.SYSTEM_VARIABLES
AiRequiredVars(found_vars) == ToSet(found_vars) \ SYSTEM_VARIABLES

\* get_template_variables on a template file (exists, readable, content).
GetTemplateVariablesOf(exists, readable, content) ==
    IF ~exists THEN <<>>
    ELSE IF ~readable THEN <<>>
    ELSE Sorted(AiRequiredVars(FindAll(content, 1)))

\* A JSON value as json.load gives it: a str (s), None, an int (s, its
\* decimal digits), a list (items) or a dict (keys and items, in order).
VStr(s) == [k |-> "str", s |-> s, keys |-> <<>>, items |-> <<>>]
VNone == [k |-> "none", s |-> <<>>, keys |-> <<>>, items |-> <<>>]
VNum(digits) == [k |-> "num", s |-> digits, keys |-> <<>>, items |-> <<>>]
VList(items) == [k |-> "list", s |-> <<>>, keys |-> <<>>, items |-> items]
VDict(keys, items) == [k |-> "dict", s |-> <<>>, keys |-> keys, items |-> items]

\* bool(value)
Truthy(value) ==
    CASE value.k = "str" -> value.s # <<>>
      [] value.k = "none" -> FALSE
      [] value.k = "num" -> value.s # <<"0">>
      [] OTHER -> value.items # <<>>

\* repr(value) and str(value)
RECURSIVE PyRepr(_)
PyRepr(value) ==
    CASE value.k = "str" -> <<"'">> \o value.s \o <<"'">>
      [] value.k = "none" -> <<"N", "o", "n", "e">>
      [] value.k = "num" -> value.s
      [] value.k = "list" ->
            <<"[">> \o Join(<<",", " ">>,
                            [i \in 1..Len(value.items) |-> PyRepr(value.items[i])])
                    \o <<"]">>
      [] OTHER ->
            <<"{">> \o Join(<<",", " ">>,
                            [i \in 1..Len(value.items) |->
                                <<"'">> \o value.keys[i] \o <<"'", ":", " ">>
                                    \o PyRepr(value.items[i])])
                    \o <<"}">>

PyStr(value) == IF value.k = "str" THEN value.s ELSE PyRepr(value)

\* HtmlProfileGenerator._format_value
RECURSIVE FormatValue(_)
FormatValue(value) ==
    CASE value.k = "list" ->
            Join(<<",", " ">>, [i \in 1..Len(value.items) |-> FormatValue(value.items[i])])
      [] value.k = "dict" ->
            LET truthy == SelectSeq(value.items, Truthy)
            IN Join(<<",", " ">>, [i \in 1..Len(truthy) |-> PyStr(truthy[i])])
      [] value.k = "none" -> <<"N", "/", "A">>
      [] OTHER -> PyStr(value)

\* A reading of datetime.now(): the date as one piece of text, hours, minutes.
\* strftime('%Y-%m-%d %H:%M') and f"OP-D-V-{strftime('%H%M')}"
Timestamp(now) == <<now.date, " ">> \o now.hh \o <<":">> \o now.mm
CaseNumber(now) == <<"O", "P", "-", "D", "-", "V", "-">> \o now.hh \o now.mm

\* The context of generate_html_content: the system-calculated values, then
\* every key of company_info (a dict) set to its formatted value.
\* company_info is [isdict, d]: d maps the keys of a dict to its values.
ContextOf(company_info, now) ==
    LET base == (W_timestamp :> Timestamp(now)) @@ (W_case_number :> CaseNumber(now))
    IN IF company_info.isdict
       THEN [key \in DOMAIN base \cup DOMAIN company_info.d |->
                IF key \in DOMAIN company_info.d
                THEN FormatValue(company_info.d[key])
                ELSE base[key]]
       ELSE base

\* string.Template's identifiers: (?a:[_a-z][_a-z0-9]*), re.IGNORECASE.
TemplateIdStart == Lower \cup Upper \cup {"_"}
TemplateIdChars == Lower \cup Upper \cup Digits \cup {"_"}

\* Whether ${identifier} of string.Template starts at t[i] (t[i] = "$"): the end
\* of the identifier, or 0.
BracedEnd(t, i) ==
    IF i + 2 <= Len(t) /\ t[i + 1] = "{" /\ t[i + 2] \in TemplateIdStart
    THEN LET e == RunEnd(t, i + 3, TemplateIdChars)
         IN IF e + 1 <= Len(t) /\ t[e + 1] = "}" THEN e ELSE 0
    ELSE 0

\* Template(t).safe_substitute(context) from position i: $$ is $, $identifier
\* and ${identifier} are the context's value when the identifier is a key and
\* stay as they are when it is not, any other $ stays.
RECURSIVE SafeSubstitute(_, _, _)
SafeSubstitute(t, i, context) ==
    IF i > Len(t) THEN <<>>
    ELSE IF t[i] # "$" THEN <<t[i]>> \o SafeSubstitute(t, i + 1, context)
    ELSE IF i + 1 <= Len(t) /\ t[i + 1] = "$"
         THEN <<"$">> \o SafeSubstitute(t, i + 2, context)
    ELSE IF i + 1 <= Len(t) /\ t[i + 1] \in TemplateIdStart
         THEN LET e == RunEnd(t, i + 2, TemplateIdChars)
                  named == SubSeq(t, i + 1, e)
              IN (IF named \in DOMAIN context THEN context[named] ELSE SubSeq(t, i, e))
                    \o SafeSubstitute(t, e + 1, context)
    ELSE IF BracedEnd(t, i) # 0
         THEN LET e == BracedEnd(t, i)
                  braced == SubSeq(t, i + 2, e)
              IN (IF braced \in DOMAIN context THEN context[braced] ELSE SubSeq(t, i, e + 1))
                    \o SafeSubstitute(t, e + 2, context)
    ELSE <<"$">> \o SafeSubstitute(t, i + 1, context)

\* f"<h1>Error generating profile</h1><p>Template: ...<br>Error: ...</p>"
ErrorHtml == <<"<h1>Error generating profile</h1>">>

\* generate_html_content(company_info) on a template file, the clock reading now.
GenerateHtmlContentOf(exists, readable, content, company_info, now) ==
    IF exists /\ readable
    THEN SafeSubstitute(content, 1, ContextOf(company_info, now))
    ELSE ErrorHtml

\* ------------------------------------------------- companies_profile.py

\* range(3) of query_gemini
Attempts == 3

\* self.models
Models == <<"gemini-2.5-flash">>

\* What requests.post gives: an exception, or a response with a status and,
\* for 200, a body that holds candidates[0].content.parts[0].text or not.
Responses ==
    { [raised |-> TRUE, status |-> 0, text |-> "None"],
      [raised |-> FALSE, status |-> 200, text |-> "text1"],
      [raised |-> FALSE, status |-> 200, text |-> "text2"],
      [raised |-> FALSE, status |-> 200, text |-> "None"],
      [raised |-> FALSE, status |-> 429, text |-> "None"],
      [raised |-> FALSE, status |-> 404, text |-> "None"],
      [raised |-> FALSE, status |-> 500, text |-> "None"] }

AfterResponseRetryAnyError(response) ==
    IF response.raised THEN "return_none"
    ELSE IF response.status = 200
         THEN (IF response.text = "None" THEN "return_none" ELSE "return_text")
    ELSE "wait"

\* The body of query_gemini's loop after requests.post: what the response
\* leads to. A 200 whose body lacks the text raises inside the try.
AfterResponse(response) ==
    IF response.raised THEN "return_none"
    ELSE IF response.status = 200
         THEN (IF response.text = "None" THEN "return_none" ELSE "return_text")
    ELSE IF response.status = 429 THEN "wait"
    ELSE "return_none"

\* query_gemini(prompt) is called: without a working model it tests the models
\* first, with one it goes to the loop.
QueryGemini ==
    /\ gem_pc = "idle"
    /\ gem_calls < MaxCalls
    /\ gem_calls' = gem_calls + 1
    /\ gem_pc' = IF working_model = "None" THEN "find_working_model" ELSE "post"
    /\ attempt' = 0
    /\ gem_log' = <<>>
    /\ gem_waits' = 0
    /\ gem_probes' = 0
    /\ gem_result' = "None"
    /\ UNCHANGED working_model
    /\ UNCHANGED exceptGem

\* find_working_model: one test request per model of self.models (one model);
\* a 200 sets working_model, anything else leaves query_gemini to return None.
FindWorkingModel ==
    /\ gem_pc = "find_working_model"
    /\ \E response \in Responses :
        /\ gem_probes' = gem_probes + 1
        /\ IF ~response.raised /\ response.status = 200
           THEN /\ working_model' = Models[1]
                /\ gem_pc' = "post"
                /\ gem_result' = gem_result
           ELSE /\ working_model' = working_model
                /\ gem_pc' = "returned"
                /\ gem_result' = "None"
    /\ UNCHANGED <<attempt, gem_log, gem_waits, gem_calls>>
    /\ UNCHANGED exceptGem

\* One pass of the loop up to the branch on the response.
PostRequest ==
    /\ gem_pc = "post"
    /\ \E response \in Responses :
        /\ gem_log' = Append(gem_log, response)
        /\ LET then == AfterResponse(response)
           IN /\ gem_pc' = IF then = "wait" THEN "sleep" ELSE "returned"
              /\ gem_result' = IF then = "return_text" THEN response.text ELSE "None"
    /\ UNCHANGED <<working_model, attempt, gem_waits, gem_probes, gem_calls>>
    /\ UNCHANGED exceptGem

\* time.sleep(20), then the next pass, or return None after the last.
Sleep20 ==
    /\ gem_pc = "sleep"
    /\ gem_waits' = gem_waits + 1
    /\ attempt' = attempt + 1
    /\ gem_pc' = IF attempt + 1 < Attempts THEN "post" ELSE "returned"
    /\ gem_result' = "None"
    /\ UNCHANGED <<working_model, gem_log, gem_probes, gem_calls>>
    /\ UNCHANGED exceptGem

\* The caller has the result; the generator waits for its next call.
GeminiReturned ==
    /\ gem_pc = "returned"
    /\ gem_pc' = "idle"
    /\ UNCHANGED <<working_model, attempt, gem_log, gem_waits, gem_probes,
                   gem_result, gem_calls>>
    /\ UNCHANGED exceptGem

InitGemini == GemIdle /\ TplIdle /\ ProcIdle /\ PdfIdle /\ MainIdle /\ AppIdle

NextGemini == QueryGemini \/ FindWorkingModel \/ PostRequest \/ Sleep20 \/ GeminiReturned

SpecGemini == InitGemini /\ [][NextGemini]_vars

Is429(response) == ~response.raised /\ response.status = 429

\* C3: query_gemini retries only on rate limiting. Per call it sends at most
\* 3 generation requests; a further request is sent only after the previous
\* one returned 429 and a 20-second wait followed it; a 200 response ends the
\* call with its text; any other status or any exception (one raised reading a
\* 200's body included) ends it with None without a retry; three 429 responses
\* in a row end it with None.
C3_RetryOnlyOnRateLimit ==
    /\ Len(gem_log) <= 3
    /\ \A i \in 1..(Len(gem_log) - 1) : Is429(gem_log[i])
    /\ gem_pc = "post" =>
          /\ Len(gem_log) < 3
          /\ gem_waits = Len(gem_log)
          /\ \A i \in 1..Len(gem_log) : Is429(gem_log[i])
    /\ (gem_pc = "returned" /\ gem_log # <<>>) =>
          LET last == gem_log[Len(gem_log)]
          IN IF ~last.raised /\ last.status = 200 /\ last.text # "None"
             THEN gem_result = last.text
             ELSE /\ gem_result = "None"
                  /\ Is429(last) => Len(gem_log) = 3 /\ gem_waits = 3
    /\ (gem_pc = "returned" /\ gem_log = <<>>) => gem_result = "None"

\* A call that was rate limited twice and got its text on the third request.
C3_Witness ==
    /\ gem_pc = "returned"
    /\ Len(gem_log) = 3
    /\ Is429(gem_log[1]) /\ Is429(gem_log[2])
    /\ gem_log[3].status = 200
    /\ gem_result = "text1"
    /\ gem_waits = 2


\* ------------------------------------------------------ template file inputs

P(word) == <<"$", "{">> \o word \o <<"}">>

Chunks ==
    { <<"$">>, <<"{">>, <<"}">>, <<"a">>, <<"1">>, <<"-">>,
      P(<<"a">>), P(<<"1">>), P(<<"Z", "_">>), P(W_timestamp), P(W_case_number), P(W_logo_filename) }

RECURSIVE Texts(_)
Texts(n) ==
    IF n = 0 THEN {<<>>}
    ELSE LET shorter == Texts(n - 1)
         IN shorter \cup {t \o c : t \in shorter, c \in Chunks}

TplFile(n) ==
    /\ template_exists \in BOOLEAN
    /\ template_readable \in BOOLEAN
    /\ template_content \in Texts(n)
    /\ template_exists = FALSE => template_readable = FALSE /\ template_content = <<>>
    /\ template_readable = FALSE => template_content = <<>>
    /\ tpl_call = "none"
    /\ tpl_arg = <<>>
    /\ tpl_now = <<>>
    /\ tpl_ret = <<>>
    /\ html_file = <<>>

\* ---------------------------------------------------- template scanning spec

GetTemplateVariables ==
    /\ tpl_call = "none"
    /\ tpl_call' = "get_template_variables"
    /\ tpl_ret' = GetTemplateVariablesOf(template_exists, template_readable, template_content)
    /\ UNCHANGED <<template_exists, template_readable, template_content,
                   tpl_arg, tpl_now, html_file>>
    /\ UNCHANGED exceptTpl

InitScan == TplFile(MaxChunks) /\ GemIdle /\ ProcIdle /\ PdfIdle /\ MainIdle /\ AppIdle

NextScan == GetTemplateVariables

SpecScan == InitScan /\ [][NextScan]_vars

\* The identifiers that occur in text as ${identifier}, identifier a non-empty
\* run of letters, digits and underscores.
OccurringIdentifiers(text) ==
    { SubSeq(text, i + 2, j - 1) :
        <<i, j>> \in { <<i, j>> \in (1..Len(text)) \X (1..Len(text)) :
                         /\ j >= i + 3
                         /\ text[i] = "$" /\ text[i + 1] = "{" /\ text[j] = "}"
                         /\ \A k \in (i + 2)..(j - 1) : text[k] \in ScanIdChars } }

StrictlyAscending(list) ==
    \A i \in 1..(Len(list) - 1) : StrLess(list[i], list[i + 1])

\* C4: get_template_variables returns, strictly ascending (sorted, no
\* duplicates), exactly the identifiers that occur in the template as
\* ${identifier} except timestamp, case_number and logo_filename; it returns
\* the empty list when the template file does not exist or cannot be read.
C4_ScanReturnsSortedAiVariables ==
    tpl_call = "get_template_variables" =>
        IF template_exists /\ template_readable
        THEN /\ StrictlyAscending(tpl_ret)
             /\ ToSet(tpl_ret) =
                  OccurringIdentifiers(template_content)
                    \ {W_timestamp, W_case_number, W_logo_filename}
        ELSE tpl_ret = <<>>

\* A scanned template with a repeated identifier, a system variable and two
\* AI fields, returned with the upper-case one first.
C4_Witness ==
    /\ tpl_call = "get_template_variables"
    /\ template_content = P(<<"a">>) \o P(W_timestamp) \o P(<<"Z", "_">>) \o P(<<"a">>)
    /\ tpl_ret = << <<"Z", "_">>, <<"a">> >>

\* A template that cannot be read scans to the empty list.
C4_WitnessUnreadable ==
    /\ tpl_call = "get_template_variables"
    /\ template_exists /\ ~template_readable
    /\ tpl_ret = <<>>

\* -------------------------------------------------------- substitution spec

InfoKeys == {<<"a">>, <<"1">>, <<"Z", "_">>, W_timestamp, W_case_number, W_logo_filename}

InfoValues ==
    { VStr(<<"x">>),
      VStr(<<"$", "{", "a", "}">>),
      VNone,
      VList(<<VStr(<<"x">>), VNone, VNum(<<"7">>)>>),
      VDict(<< <<"k">>, <<"n">>, <<"z">>, <<"l">> >>,
            <<VStr(<<"y">>), VNone, VNum(<<"0">>), VList(<<VStr(<<"x">>)>>)>>) }

\* The dicts json.load can give, and the values that are no dict.
Dicts ==
    UNION { [K -> InfoValues] : K \in {K \in SUBSET InfoKeys : Cardinality(K) <= MaxKeys} }

CompanyInfos ==
    {[isdict |-> TRUE, d |-> d] : d \in Dicts} \cup {[isdict |-> FALSE, d |-> <<>>]}

Clocks ==
    { [date |-> "2026-11-01", hh |-> <<"0", "9">>, mm |-> <<"0", "5">>],
      [date |-> "2026-12-31", hh |-> <<"2", "3">>, mm |-> <<"5", "9">>] }

SafeNames == {<<"K", "o", "n", "e">>, <<"Z", "_", "1">>}

LogoFilename(safe_name) == safe_name \o <<"_", "l", "o", "g", "o", ".", "p", "n", "g">>

\* html_gen.generate_html_content(company_info), called with any value.
GenerateHtmlContent ==
    /\ tpl_call = "none"
    /\ \E company_info \in CompanyInfos, now \in Clocks :
        /\ tpl_call' = "generate_html_content"
        /\ tpl_arg' = company_info
        /\ tpl_now' = now
        /\ tpl_ret' = GenerateHtmlContentOf(template_exists, template_readable,
                                            template_content, company_info, now)
    /\ UNCHANGED <<template_exists, template_readable, template_content, html_file>>
    /\ UNCHANGED exceptTpl

\* data['logo_filename'] = logo_filename
InjectLogo(data, safe_name) ==
    [isdict |-> TRUE,
     d |-> [key \in DOMAIN data.d \cup {W_logo_filename} |->
              IF key = W_logo_filename THEN VStr(LogoFilename(safe_name)) ELSE data.d[key]]]

\* One pass of the worker's HTML loop over a data file: json.load, the logo
\* injected, generate_html_content, the profile written. A file that does not
\* load, or loads to something that is no dict, raises and is only logged.
BuildHtml ==
    /\ tpl_call = "none"
    /\ \E safe_name \in SafeNames, loads \in BOOLEAN, data \in CompanyInfos, now \in Clocks :
        /\ tpl_call' = "build_html"
        /\ tpl_now' = now
        /\ IF loads /\ data.isdict
           THEN LET html_content ==
                       GenerateHtmlContentOf(template_exists, template_readable,
                                             template_content,
                                             InjectLogo(data, safe_name), now)
                IN /\ tpl_arg' = data
                   /\ tpl_ret' = html_content
                   /\ html_file' = [safe_name |-> safe_name, text |-> html_content]
           ELSE /\ tpl_arg' = IF loads THEN data ELSE <<>>
                /\ tpl_ret' = <<>>
                /\ html_file' = <<>>
    /\ UNCHANGED <<template_exists, template_readable, template_content>>
    /\ UNCHANGED exceptTpl

InitHtml == TplFile(MaxHtmlChunks) /\ GemIdle /\ ProcIdle /\ PdfIdle /\ MainIdle /\ AppIdle

NextHtml == GenerateHtmlContent \/ BuildHtml

SpecHtml == InitHtml /\ [][NextHtml]_vars

\* Whether the scanner's pattern ${identifier} matches at t[i].
ScanMatchEnd(t, i) ==
    IF t[i] = "$" /\ i + 1 <= Len(t) /\ t[i + 1] = "{"
    THEN LET e == RunEnd(t, i + 2, ScanIdChars)
         IN IF e >= i + 2 /\ e + 1 <= Len(t) /\ t[e + 1] = "}" THEN e ELSE 0
    ELSE 0

\* Every $ of t opens a ${identifier} placeholder.
OnlyPlaceholders(t) == \A i \in 1..Len(t) : t[i] = "$" => ScanMatchEnd(t, i) # 0

\* t from position i with every ${key} whose key is in the context replaced by
\* the context's value, and every other ${key} left as it is.
RECURSIVE ReplacePlaceholders(_, _, _)
ReplacePlaceholders(t, i, context) ==
    IF i > Len(t) THEN <<>>
    ELSE IF ScanMatchEnd(t, i) # 0
         THEN LET e == ScanMatchEnd(t, i)
                  key == SubSeq(t, i + 2, e)
              IN (IF key \in DOMAIN context THEN context[key] ELSE SubSeq(t, i, e + 1))
                    \o ReplacePlaceholders(t, e + 2, context)
    ELSE <<t[i]>> \o ReplacePlaceholders(t, i + 1, context)

\* C5: generate_html_content returns a string for every company_info: the
\* error HTML when the template cannot be read, and otherwise the template with
\* every ${key} placeholder whose key is in the context replaced by the
\* formatted value and every placeholder whose key is missing left unchanged
\* (stated of the templates whose every $ opens a ${identifier} placeholder).
C5_SubstitutionSafe ==
    tpl_call = "generate_html_content" =>
        IF template_exists /\ template_readable
        THEN OnlyPlaceholders(template_content) =>
                tpl_ret = ReplacePlaceholders(template_content, 1,
                                              ContextOf(tpl_arg, tpl_now))
        ELSE tpl_ret = ErrorHtml

\* The context with the three system variables set to the program's values.
ProgramComputed(context, now, safe_name) ==
    [key \in DOMAIN context \cup SYSTEM_VARIABLES |->
        CASE key = W_timestamp -> Timestamp(now)
          [] key = W_case_number -> CaseNumber(now)
          [] key = W_logo_filename -> LogoFilename(safe_name)
          [] OTHER -> context[key]]

\* C6: in every HTML profile the pipeline builds, the values substituted for
\* ${timestamp}, ${case_number} and ${logo_filename} are the program-computed
\* ones (the current time, OP-D-V-<HHMM>, <safe_name>_logo.png), whatever keys
\* the AI-generated data holds.
C6_SystemValuesProgramComputed ==
    (tpl_call = "build_html" /\ html_file # <<>> /\ template_exists /\ template_readable) =>
        html_file.text =
            SafeSubstitute(template_content, 1,
                           ProgramComputed(ContextOf(tpl_arg, tpl_now), tpl_now,
                                           html_file.safe_name))

\* ------------------------------------------------------- process_company

\* str.isalnum() on the characters a company name is made of here.
IsAlnum(c) == c \in {"K"}

NameChars == {"K", " ", "-", "_", "!"}

RECURSIVE NamesUpTo(_)
NamesUpTo(n) ==
    IF n = 0 THEN {<<>>}
    ELSE LET shorter == NamesUpTo(n - 1)
         IN shorter \cup {name \o <<c>> : name \in shorter, c \in NameChars}

KeptInFileName(c) == IsAlnum(c) \/ c \in {" ", "-", "_"}

\* str.strip() of a text whose only whitespace is the space.
RECURSIVE LStrip(_)
LStrip(s) == IF s # <<>> /\ Head(s) = " " THEN LStrip(Tail(s)) ELSE s
RECURSIVE RStrip(_)
RStrip(s) ==
    IF s # <<>> /\ s[Len(s)] = " " THEN RStrip(SubSeq(s, 1, Len(s) - 1)) ELSE s
Strip(s) == RStrip(LStrip(s))

\* "".join(c for c in company_name if c.isalnum() or c in (' ', '-', '_'))
\*    .strip().replace(' ', '_')
SafeName(name) ==
    LET kept == Strip(SelectSeq(name, KeptInFileName))
    IN [i \in 1..Len(kept) |-> IF kept[i] = " " THEN "_" ELSE kept[i]]

DataFileName(safe_name) ==
    safe_name \o <<"_", "d", "a", "t", "a", ".", "j", "s", "o", "n">>

\* The AI's answer is a sequence of pieces: "fence_json" and "fence" (the
\* markdown fences, three backquotes with and without json), the braces, "kv" (the
\* members of an object, without braces), "x" (prose) and " " (white space).
TextChunks ==
    { <<"fence_json">>, <<"fence">>, <<"{">>, <<"}">>, <<"kv">>, <<"x">>, <<" ">>,
      <<"{", "kv", "}">>, <<"{", "}">> }

RECURSIVE AnswersUpTo(_)
AnswersUpTo(n) ==
    IF n = 0 THEN {<<>>}
    ELSE LET shorter == AnswersUpTo(n - 1)
         IN shorter \cup {t \o c : t \in shorter, c \in TextChunks}

\* s.find('{') and s.rfind('}'), counted from 1: 0 for Python's -1.
Find(s, c) ==
    IF \E i \in 1..Len(s) : s[i] = c
    THEN CHOOSE i \in 1..Len(s) : s[i] = c /\ \A j \in 1..(i - 1) : s[j] # c
    ELSE 0
RFind(s, c) ==
    IF \E i \in 1..Len(s) : s[i] = c
    THEN CHOOSE i \in 1..Len(s) : s[i] = c /\ \A j \in (i + 1)..Len(s) : s[j] # c
    ELSE 0

NotSpace(piece) == piece # " "

\* json.loads: the object's members, or a failure (JSONDecodeError).
JsonLoads(text) ==
    LET tokens == SelectSeq(text, NotSpace)
    IN IF tokens = <<"{", "}">> THEN [ok |-> TRUE, members |-> <<>>]
       ELSE IF tokens = <<"{", "kv", "}">> THEN [ok |-> TRUE, members |-> <<"kv">>]
       ELSE [ok |-> FALSE, members |-> <<>>]

\* json.dump(info, f, indent=2)
JsonDump(info) == <<"{">> \o info.members \o <<"}">>

NoInfo == [ok |-> FALSE, members |-> <<>>]

\* generate_company_info, given what query_gemini returned (None or a text):
\* the dict parsed, or NoInfo for None.
GenerateCompanyInfoOf(result) ==
    IF result.none \/ result.text = <<>> THEN NoInfo
    ELSE LET stripped == Strip(result.text)
             unfenced == IF stripped # <<>> /\ Head(stripped) = "fence_json"
                         THEN Tail(stripped) ELSE stripped
             clean_json == IF unfenced # <<>> /\ unfenced[Len(unfenced)] = "fence"
                           THEN SubSeq(unfenced, 1, Len(unfenced) - 1) ELSE unfenced
             start_idx == Find(clean_json, "{")
             end_idx == RFind(clean_json, "}")
         IN IF start_idx # 0
            THEN JsonLoads(SubSeq(clean_json, start_idx, end_idx))
            ELSE NoInfo

InfoGivenAnyDict(info) == info.ok

\* "if info:": the dict parsed is not empty.
InfoGiven(info) == info.ok /\ info.members # <<>>

\* process_company(company_name, required_fields, output_dir), query_gemini
\* answering with any text or None.
ProcessCompany ==
    /\ proc_pc = "called"
    /\ \E result \in {Answer(text) : text \in AnswersUpTo(MaxTextChunks)} \cup {NoAnswer} :
        LET info == GenerateCompanyInfoOf(result)
            fname == DataFileName(SafeName(company_name))
        IN /\ proc_text' = result
           /\ IF InfoGiven(info)
              THEN IF dir_writable
                   THEN /\ proc_files' = {[name |-> fname, text |-> JsonDump(info)]}
                        /\ proc_ret' = [success |-> TRUE, fname |-> fname]
                        /\ proc_pc' = "returned"
                   ELSE /\ proc_files' = proc_files
                        /\ proc_ret' = proc_ret
                        /\ proc_pc' = "raised"
              ELSE /\ proc_files' = proc_files
                   /\ proc_ret' = [success |-> FALSE, fname |-> <<>>]
                   /\ proc_pc' = "returned"
    /\ UNCHANGED <<company_name, dir_writable>>
    /\ UNCHANGED exceptProc

InitProcess ==
    /\ company_name \in NamesUpTo(MaxNameLen)
    /\ dir_writable \in BOOLEAN
    /\ proc_pc = "called"
    /\ proc_text = NoAnswer
    /\ proc_ret = <<>>
    /\ proc_files = {}
    /\ TplIdle /\ GemIdle /\ PdfIdle /\ MainIdle /\ AppIdle

NextProcess == ProcessCompany

SpecProcess == InitProcess /\ [][NextProcess]_vars

\* The answer is a JSON object, alone or inside the fences or prose the
\* program cuts away: from its first { to its last } it is { }, or { kv }.
AnswerHoldsObject(result) ==
    /\ ~result.none
    /\ \E i, j \in 1..Len(result.text) :
          /\ i < j
          /\ result.text[i] = "{" /\ result.text[j] = "}"
          /\ \A h \in 1..(i - 1) : result.text[h] # "{"
          /\ \A h \in (j + 1)..Len(result.text) : result.text[h] # "}"
          /\ \A h \in (i + 1)..(j - 1) : result.text[h] \in {"kv", " "}
          /\ Cardinality({h \in (i + 1)..(j - 1) : result.text[h] = "kv"}) <= 1

\* The members of that object.
AnswerMembers(result) ==
    IF \E h \in 1..Len(result.text) :
            /\ result.text[h] = "kv"
            /\ \E i \in 1..(h - 1) : result.text[i] = "{"
            /\ \E j \in (h + 1)..Len(result.text) : result.text[j] = "}"
    THEN <<"kv">>
    ELSE <<>>

\* The safe name as the claim words it: the alphanumeric characters, hyphens
\* and underscores of the name, its spaces replaced by underscores.
RECURSIVE ClaimedSafeName(_)
ClaimedSafeName(name) ==
    IF name = <<>> THEN <<>>
    ELSE (IF IsAlnum(Head(name)) \/ Head(name) \in {"-", "_"} THEN <<Head(name)>>
          ELSE IF Head(name) = " " THEN <<"_">>
          ELSE <<>>) \o ClaimedSafeName(Tail(name))

\* C8 as stated: process_company returns (True, path) exactly when the AI
\* returned a parseable JSON object and that object has been written to
\* <safe_name>_data.json, safe_name the alphanumeric characters, hyphens and
\* underscores of the name with spaces replaced by underscores; otherwise it
\* returns (False, None) and writes no file.
C8_SavesExactlyParsedObjects ==
    proc_pc # "called" =>
        IF AnswerHoldsObject(proc_text) /\ dir_writable
        THEN /\ proc_pc = "returned"
             /\ proc_ret = [success |-> TRUE,
                            fname |-> DataFileName(ClaimedSafeName(company_name))]
             /\ proc_files = {[name |-> DataFileName(ClaimedSafeName(company_name)),
                               text |-> <<"{">> \o AnswerMembers(proc_text) \o <<"}">>]}
        ELSE /\ proc_pc = "returned"
             /\ proc_ret = [success |-> FALSE, fname |-> <<>>]
             /\ proc_files = {}

\* White space (here: spaces) cut from both ends of a name.
Trimmed(name) ==
    IF \E i \in 1..Len(name) : name[i] # " "
    THEN SubSeq(name,
                CHOOSE i \in 1..Len(name) : name[i] # " " /\ \A j \in 1..(i - 1) : name[j] = " ",
                CHOOSE i \in 1..Len(name) : name[i] # " " /\ \A j \in (i + 1)..Len(name) : name[j] = " ")
    ELSE <<>>

\* C8 as amended: process_company returns (True, path) exactly when the AI's
\* answer holds a parseable JSON object that is not empty and that object has
\* been written to <safe_name>_data.json, safe_name the alphanumeric
\* characters, hyphens, underscores and spaces of the name, the spaces at both
\* ends cut and the others replaced by underscores; when the answer holds no
\* such object it returns (False, None) and writes no file; when the file
\* cannot be written it raises.
C8_SavesNonEmptyParsedObjects ==
    proc_pc # "called" =>
        LET kept == [i \in 1..Len(SelectSeq(company_name, KeptInFileName)) |->
                        SelectSeq(company_name, KeptInFileName)[i]]
            safe_name == ClaimedSafeName(Trimmed(kept))
        IN IF AnswerHoldsObject(proc_text) /\ AnswerMembers(proc_text) # <<>>
           THEN IF dir_writable
                THEN /\ proc_pc = "returned"
                     /\ proc_ret = [success |-> TRUE, fname |-> DataFileName(safe_name)]
                     /\ proc_files = {[name |-> DataFileName(safe_name),
                                       text |-> <<"{">> \o AnswerMembers(proc_text) \o <<"}">>]}
                ELSE proc_pc = "raised" /\ proc_files = {}
           ELSE /\ proc_pc = "returned"
                /\ proc_ret = [success |-> FALSE, fname |-> <<>>]
                /\ proc_files = {}

\* A fenced answer with prose around the object, saved under a name whose
\* punctuation was dropped and whose trailing space was cut.
C8_Witness ==
    /\ proc_pc = "returned"
    /\ company_name = <<"K", " ", "!">>
    /\ proc_text = Answer(<<"fence_json", "{", "kv", "}", "fence">>)
    /\ proc_ret = [success |-> TRUE, fname |-> DataFileName(<<"K">>)]

\* ------------------------------------------------------------ compiler.py

HtmlNames == 1..MaxHtmlFiles

RemainingAfterAbortOnFailure(remaining, html_file_, compiled) ==
    IF compiled THEN remaining \ {html_file_} ELSE {}

\* The files the loop has yet to visit after one pass of its body, which
\* catches what write_pdf raises.
RemainingAfter(remaining, html_file_, compiled) == remaining \ {html_file_}

\* compile_html_to_pdf(source_dir) up to the loop: False without WeasyPrint or
\* without the directory, else the glob.
CompileHtmlToPdf ==
    /\ pdf_pc = "called"
    /\ IF ~weasyprint_available \/ ~dir_exists
       THEN /\ pdf_pc' = "returned"
            /\ pdf_result' = "False"
            /\ html_files' = html_files
       ELSE /\ pdf_pc' = "loop"
            /\ pdf_result' = pdf_result
            /\ html_files' = dir_html
    /\ UNCHANGED <<weasyprint_available, dir_exists, dir_html, pdf_attempts,
                   success_count, failed_files, dir_pdf>>
    /\ UNCHANGED exceptPdf

\* One pass of the loop: write_pdf on the next file of the glob (in the order
\* the directory lists them, any order) succeeds or raises.
CompileOne ==
    /\ pdf_pc = "loop"
    /\ \E html_file_ \in html_files, compiled \in BOOLEAN :
        /\ pdf_attempts' = [pdf_attempts EXCEPT ![html_file_] = @ + 1]
        /\ success_count' = IF compiled THEN success_count + 1 ELSE success_count
        /\ failed_files' = IF compiled THEN failed_files ELSE Append(failed_files, html_file_)
        /\ dir_pdf' = IF compiled THEN dir_pdf \cup {html_file_} ELSE dir_pdf
        /\ html_files' = RemainingAfter(html_files, html_file_, compiled)
    /\ UNCHANGED <<weasyprint_available, dir_exists, dir_html, pdf_pc, pdf_result>>
    /\ UNCHANGED exceptPdf

\* The report, and return success_count > 0.
CompileReturn ==
    /\ pdf_pc = "loop"
    /\ html_files = {}
    /\ pdf_pc' = "returned"
    /\ pdf_result' = IF success_count > 0 THEN "True" ELSE "False"
    /\ UNCHANGED <<weasyprint_available, dir_exists, dir_html, html_files, pdf_attempts,
                   success_count, failed_files, dir_pdf>>
    /\ UNCHANGED exceptPdf

InitCompile ==
    /\ weasyprint_available \in BOOLEAN
    /\ dir_exists \in BOOLEAN
    /\ dir_html \in SUBSET HtmlNames
    /\ ~dir_exists => dir_html = {}
    /\ pdf_pc = "called"
    /\ html_files = {}
    /\ pdf_attempts = [f \in HtmlNames |-> 0]
    /\ success_count = 0
    /\ failed_files = <<>>
    /\ dir_pdf = {}
    /\ pdf_result = "None"
    /\ TplIdle /\ GemIdle /\ ProcIdle /\ MainIdle /\ AppIdle

NextCompile == CompileHtmlToPdf \/ CompileOne \/ CompileReturn

SpecCompile == InitCompile /\ [][NextCompile]_vars

\* C7: compile_html_to_pdf attempts each .html file of the directory once, a
\* failure on one file does not prevent the attempt on any other, and it
\* returns True exactly when at least one file compiled; without WeasyPrint
\* or without the directory it returns False and attempts no file.
C7_CompilesEveryFileOnce ==
    /\ \A f \in HtmlNames : pdf_attempts[f] <= 1
    /\ \A f \in HtmlNames : pdf_attempts[f] = 1 => f \in dir_html
    /\ pdf_pc = "returned" =>
          IF weasyprint_available /\ dir_exists
          THEN /\ \A f \in dir_html : pdf_attempts[f] = 1
               /\ pdf_result = "True" <=> dir_pdf # {}
               /\ pdf_result \in {"True", "False"}
          ELSE /\ pdf_result = "False"
               /\ \A f \in HtmlNames : pdf_attempts[f] = 0

\* A run in which two files failed, another compiled, and True was returned.
C7_Witness ==
    /\ pdf_pc = "returned"
    /\ pdf_result = "True"
    /\ Len(failed_files) = 2
    /\ Cardinality(dir_pdf) = 1

\* ----------------------------------------------------------------- main.py

TARGET_COMPANIES == <<"Nokia", "Rovio Entertainment", "Kone", "Supercell">>

OldDataNames == 1..MaxOldData

\* main() up to the check of the API key.
MainStart ==
    /\ main_pc = "start"
    /\ IF env_api_key = ""
       THEN main_pc' = "returned"
       ELSE main_pc' = "setup"
    /\ UNCHANGED <<env_api_key, out_data, main_generated, main_reached>>
    /\ UNCHANGED exceptMain

\* base_path.mkdir(exist_ok=True), and step 1 is announced.
MainSetup ==
    /\ main_pc = "setup"
    /\ main_pc' = "step1"
    /\ main_reached' = Append(main_reached, 1)
    /\ UNCHANGED <<env_api_key, out_data, main_generated>>
    /\ UNCHANGED exceptMain

\* Step 1: CorporateProfileGenerator(api_key=api_key), then
\* ai_gen.process_companies_from_list(TARGET_COMPANIES, OUTPUT_DIR): the class
\* has no such method, the call raises AttributeError and main() ends there.
MainStep1 ==
    /\ main_pc = "step1"
    /\ main_pc' = "raised"
    /\ UNCHANGED <<env_api_key, out_data, main_generated, main_reached>>
    /\ UNCHANGED exceptMain

InitMain ==
    /\ env_api_key \in {"", "key"}
    /\ out_data \in SUBSET OldDataNames
    /\ main_pc = "start"
    /\ main_generated = {}
    /\ main_reached = <<>>
    /\ TplIdle /\ GemIdle /\ ProcIdle /\ PdfIdle /\ AppIdle

NextMain == MainStart \/ MainSetup \/ MainStep1

SpecMain == InitMain /\ [][NextMain]_vars

\* C10: main(), when GEMINI_API_KEY is set, runs step 1 (a profile for every
\* company of TARGET_COMPANIES) to completion and then reaches step 2; it
\* skips steps 2-4 only when the key is unset or no data file exists after
\* step 1. Stated of the runs that have ended.
C10_Step1ThenStep2 ==
    (main_pc \in {"returned", "raised"} /\ env_api_key # "") =>
        /\ main_generated = ToSet(TARGET_COMPANIES)
        /\ \E i \in 1..Len(main_reached) : main_reached[i] = 2

\* --------------------------------------------------------------- app_ui.py

\* The names the user lists, in the order the user lists them.
Roster == <<"Nokia", "Kone", "Supercell", "Rovio">>

\* A data file left in output_dir by an earlier run, for a company of no list.
OldNames == {"Old"}

\* What PipelineWorker.__init__ keeps of the text of the companies box: the
\* lines that are not blank (start_process lets no blank text through).
CompanyLists == {SubSeq(Roster, 1, n) : n \in 1..MaxCompanies}

\* The order in which the directory lists its files.
DirOrder == <<"Kone", "Nokia", "Old", "Rovio", "Supercell">>

\* range(10) of the cooldown
CooldownSeconds == 10

\* int((current_step / total_steps) * 100); the float product and the integer
\* quotient agree for every current_step and total_steps the bounds allow.
Percent(current_step, total_steps) == (current_step * 100) \div total_steps

\* list(base_path.glob("*_data.json")): the files of S in the directory's order.
InDir(S) == LET Member(name) == name \in S IN SelectSeq(DirOrder, Member)

\* PipelineWorker(api_key, companies, output_dir, template_name), started.
NewWorker(companies) ==
    [pc |-> "phase0", is_running |-> TRUE, companies |-> companies,
     total_steps |-> 0, current_step |-> 0, i |-> 0, cool |-> 0,
     json_files |-> <<>>, k |-> 0,
     ops |-> <<>>, emitted |-> <<>>, succeeded |-> {}, outcome |-> "running"]

Op(op, item) == [op |-> op, item |-> item]

ContinuationCompilePerFile(point) ==
    CASE point = "phase0" -> "gen_check"
      [] point = "gen_done" -> "glob"
      [] point = "glob" -> "logo_check"
      [] point = "logo_item" -> "logo_check"
      [] point = "logo_done" -> "html_check"
      [] point = "html_item" -> "pdf"
      [] point = "html_done" -> "finish"
      [] OTHER -> "html_check"

\* Where run() goes on from the end of a phase or of a pass of a loop.
Continuation(point) ==
    CASE point = "phase0" -> "gen_check"
      [] point = "gen_done" -> "glob"
      [] point = "glob" -> "logo_check"
      [] point = "logo_item" -> "logo_check"
      [] point = "logo_done" -> "html_check"
      [] point = "html_item" -> "html_check"
      [] point = "html_done" -> "pdf"
      [] OTHER -> "finish"

Ended(rec, outcome) == [rec EXCEPT !.pc = "ended", !.outcome = outcome]

\* current_step += 1; self.signals.progress.emit(...)
Progressed(rec) ==
    [rec EXCEPT !.current_step = @ + 1,
                !.emitted = Append(@, Percent(rec.current_step + 1, rec.total_steps))]

Running(w) == worker[w].pc \notin {"ended"}

\* run(), phase 0: total_steps, mkdir, and the template: missing, the error
\* signal and return; else get_template_variables.
Phase0(w) ==
    /\ worker[w].pc = "phase0"
    /\ IF ~template_exists
       THEN /\ worker' = [worker EXCEPT ![w] = Ended(@, "error")]
            /\ signals' = Append(signals, [w |-> w, signal |-> "error"])
       ELSE /\ worker' = [worker EXCEPT ![w] =
                            [@ EXCEPT !.total_steps = Len(worker[w].companies) * 3 + 1,
                                      !.ops = Append(@, Op("template", "template")),
                                      !.pc = Continuation("phase0")]]
            /\ signals' = signals
    /\ UNCHANGED <<start_btn, stop_btn, self_worker, fs_data, fs_logo, fs_html>>
    /\ UNCHANGED exceptApp

\* The head of the loop over the companies, and its is_running test.
GenCheck(w) ==
    /\ worker[w].pc = "gen_check"
    /\ worker' = [worker EXCEPT ![w] =
                    IF @.i >= Len(@.companies) THEN [@ EXCEPT !.pc = Continuation("gen_done")]
                    ELSE IF ~@.is_running THEN Ended(@, "stopped")
                    ELSE [@ EXCEPT !.pc = "gen_work"]]
    /\ UNCHANGED <<start_btn, stop_btn, self_worker, signals, fs_data, fs_logo, fs_html>>
    /\ UNCHANGED exceptApp

\* ai_gen.process_company(company, ...): the data file saved, or no data, or
\* an exception (the file cannot be written), which ends run() with the error
\* signal; then the progress, and the cooldown when companies remain.
GenWork(w) ==
    /\ worker[w].pc = "gen_work"
    /\ LET company == worker[w].companies[worker[w].i + 1]
           started == [worker[w] EXCEPT !.ops = Append(@, Op("ai", company))]
       IN \E result \in {"saved", "no data", "raised"} :
            IF result = "raised"
            THEN /\ worker' = [worker EXCEPT ![w] = Ended(started, "error")]
                 /\ signals' = Append(signals, [w |-> w, signal |-> "error"])
                 /\ fs_data' = fs_data
            ELSE /\ fs_data' = IF result = "saved" THEN fs_data \cup {company} ELSE fs_data
                 /\ signals' = signals
                 /\ worker' = [worker EXCEPT ![w] =
                      LET done == Progressed(
                                    [started EXCEPT !.succeeded =
                                        IF result = "saved" THEN @ \cup {company} ELSE @])
                      IN IF done.i < Len(done.companies) - 1
                         THEN [done EXCEPT !.pc = "cooldown", !.cool = 0]
                         ELSE [done EXCEPT !.pc = "gen_check", !.i = @ + 1]]
    /\ UNCHANGED <<start_btn, stop_btn, self_worker, fs_logo, fs_html>>
    /\ UNCHANGED exceptApp

\* One pass of the cooldown: the is_running test, then time.sleep(1).
Cooldown(w) ==
    /\ worker[w].pc = "cooldown"
    /\ worker' = [worker EXCEPT ![w] =
                    IF ~@.is_running THEN Ended(@, "stopped")
                    ELSE IF @.cool + 1 < CooldownSeconds THEN [@ EXCEPT !.cool = @ + 1]
                    ELSE [@ EXCEPT !.cool = 0, !.i = @ + 1, !.pc = "gen_check"]]
    /\ UNCHANGED <<start_btn, stop_btn, self_worker, signals, fs_data, fs_logo, fs_html>>
    /\ UNCHANGED exceptApp

\* json_files = list(base_path.glob("*_data.json"))
Glob(w) ==
    /\ worker[w].pc = "glob"
    /\ worker' = [worker EXCEPT ![w] =
                    [@ EXCEPT !.json_files = InDir(fs_data), !.k = 0,
                              !.pc = Continuation("glob")]]
    /\ UNCHANGED <<start_btn, stop_btn, self_worker, signals, fs_data, fs_logo, fs_html>>
    /\ UNCHANGED exceptApp

\* The head of the loop over json_files in phase 2, and its is_running test.
LogoCheck(w) ==
    /\ worker[w].pc = "logo_check"
    /\ worker' = [worker EXCEPT ![w] =
                    IF @.k >= Len(@.json_files)
                    THEN [@ EXCEPT !.k = 0, !.pc = Continuation("logo_done")]
                    ELSE IF ~@.is_running THEN Ended(@, "stopped")
                    ELSE [@ EXCEPT !.pc = "logo_work"]]
    /\ UNCHANGED <<start_btn, stop_btn, self_worker, signals, fs_data, fs_logo, fs_html>>
    /\ UNCHANGED exceptApp

\* The logo of one data file: there already, or searched and, when an image
\* is found and its download succeeds, saved; then the progress.
LogoWork(w) ==
    /\ worker[w].pc = "logo_work"
    /\ LET json_file == worker[w].json_files[worker[w].k + 1]
       IN \E saved \in BOOLEAN :
            /\ fs_logo' = IF json_file \notin fs_logo /\ saved
                          THEN fs_logo \cup {json_file} ELSE fs_logo
            /\ worker' = [worker EXCEPT ![w] =
                 LET done == Progressed(
                        [@ EXCEPT !.ops = Append(@, Op(IF json_file \in fs_logo
                                                       THEN "logo exists" ELSE "logo search",
                                                       json_file))])
                 IN [done EXCEPT !.k = @ + 1, !.pc = Continuation("logo_item")]]
    /\ UNCHANGED <<start_btn, stop_btn, self_worker, signals, fs_data, fs_html>>
    /\ UNCHANGED exceptApp

\* The head of the loop over json_files in phase 3, and its is_running test.
HtmlCheck(w) ==
    /\ worker[w].pc = "html_check"
    /\ worker' = [worker EXCEPT ![w] =
                    IF @.k >= Len(@.json_files)
                    THEN [@ EXCEPT !.pc = Continuation("html_done")]
                    ELSE IF ~@.is_running THEN Ended(@, "stopped")
                    ELSE [@ EXCEPT !.pc = "html_work"]]
    /\ UNCHANGED <<start_btn, stop_btn, self_worker, signals, fs_data, fs_logo, fs_html>>
    /\ UNCHANGED exceptApp

\* One pass of the HTML loop: the profile of one data file built and written,
\* or the exception on the way logged (BuildHtml is the pass in full); either
\* way the progress.
HtmlWork(w) ==
    /\ worker[w].pc = "html_work"
    /\ LET json_file == worker[w].json_files[worker[w].k + 1]
       IN /\ fs_html' = fs_html \cup {json_file}
          /\ worker' = [worker EXCEPT ![w] =
                 LET done == Progressed([@ EXCEPT !.ops = Append(@, Op("html", json_file))])
                 IN [done EXCEPT !.k = @ + 1, !.pc = Continuation("html_item")]]
    /\ UNCHANGED <<start_btn, stop_btn, self_worker, signals, fs_data, fs_logo>>
    /\ UNCHANGED exceptApp

\* compiler.compile_html_to_pdf(self.output_dir), and the log of its result.
Pdf(w) ==
    /\ worker[w].pc = "pdf"
    /\ worker' = [worker EXCEPT ![w] =
                    [@ EXCEPT !.ops = Append(@, Op("pdf", "output_dir")),
                              !.pc = Continuation("pdf")]]
    /\ UNCHANGED <<start_btn, stop_btn, self_worker, signals, fs_data, fs_logo, fs_html>>
    /\ UNCHANGED exceptApp

\* progress.emit(100), finished.emit(), and run() returns.
Finish(w) ==
    /\ worker[w].pc = "finish"
    /\ worker' = [worker EXCEPT ![w] = Ended([@ EXCEPT !.emitted = Append(@, 100)], "finished")]
    /\ signals' = Append(signals, [w |-> w, signal |-> "finished"])
    /\ UNCHANGED <<start_btn, stop_btn, self_worker, fs_data, fs_logo, fs_html>>
    /\ UNCHANGED exceptApp

\* start_process: a click on the enabled Start button, with an API key, a
\* company and a template given (without one it warns and changes nothing):
\* it disables Start, enables Stop, and makes and starts a worker, which
\* replaces self.worker.
StartProcess ==
    /\ start_btn
    /\ Len(worker) < MaxWorkers
    /\ \E companies \in CompanyLists :
        /\ start_btn' = FALSE
        /\ stop_btn' = TRUE
        /\ worker' = Append(worker, NewWorker(companies))
        /\ self_worker' = Len(worker) + 1
    /\ UNCHANGED <<signals, fs_data, fs_logo, fs_html>>
    /\ UNCHANGED exceptApp

\* PipelineWorker.stop
Stopped(rec) == [rec EXCEPT !.is_running = FALSE]

\* stop_process: a click on the enabled Stop button: self.worker.stop(), and
\* Start is enabled again.
StopProcess ==
    /\ stop_btn
    /\ self_worker # 0
    /\ worker' = [worker EXCEPT ![self_worker] = Stopped(@)]
    /\ start_btn' = TRUE
    /\ stop_btn' = FALSE
    /\ UNCHANGED <<self_worker, signals, fs_data, fs_logo, fs_html>>
    /\ UNCHANGED exceptApp

\* process_finished and process_error: the window handles the oldest signal.
ProcessFinished ==
    /\ signals # <<>>
    /\ Head(signals).signal = "finished"
    /\ signals' = Tail(signals)
    /\ start_btn' = TRUE
    /\ stop_btn' = FALSE
    /\ UNCHANGED <<self_worker, worker, fs_data, fs_logo, fs_html>>
    /\ UNCHANGED exceptApp

ProcessError ==
    /\ signals # <<>>
    /\ Head(signals).signal = "error"
    /\ signals' = Tail(signals)
    /\ start_btn' = TRUE
    /\ stop_btn' = FALSE
    /\ UNCHANGED <<self_worker, worker, fs_data, fs_logo, fs_html>>
    /\ UNCHANGED exceptApp

\* The window as CorporateProfileApp.__init__ leaves it, over an output
\* directory with any data files and logos of earlier runs.
InitApp ==
    /\ start_btn = TRUE
    /\ stop_btn = FALSE
    /\ self_worker = 0
    /\ worker = <<>>
    /\ signals = <<>>
    /\ fs_data \in SUBSET ({Roster[1]} \cup OldNames)
    /\ fs_logo \in SUBSET OldNames
    /\ fs_html = {}
    /\ template_exists \in BOOLEAN
    /\ template_readable = template_exists
    /\ template_content = <<>>
    /\ tpl_call = "none"
    /\ tpl_arg = <<>>
    /\ tpl_now = <<>>
    /\ tpl_ret = <<>>
    /\ html_file = <<>>
    /\ GemIdle /\ ProcIdle /\ PdfIdle /\ MainIdle

Workers == 1..MaxWorkers

NextApp ==
    \/ StartProcess
    \/ StopProcess
    \/ ProcessFinished
    \/ ProcessError
    \/ \E w \in Workers : w <= Len(worker) /\ Phase0(w)
    \/ \E w \in Workers : w <= Len(worker) /\ GenCheck(w)
    \/ \E w \in Workers : w <= Len(worker) /\ GenWork(w)
    \/ \E w \in Workers : w <= Len(worker) /\ Cooldown(w)
    \/ \E w \in Workers : w <= Len(worker) /\ Glob(w)
    \/ \E w \in Workers : w <= Len(worker) /\ LogoCheck(w)
    \/ \E w \in Workers : w <= Len(worker) /\ LogoWork(w)
    \/ \E w \in Workers : w <= Len(worker) /\ HtmlCheck(w)
    \/ \E w \in Workers : w <= Len(worker) /\ HtmlWork(w)
    \/ \E w \in Workers : w <= Len(worker) /\ Pdf(w)
    \/ \E w \in Workers : w <= Len(worker) /\ Finish(w)

SpecApp == InitApp /\ [][NextApp]_vars

\* The phase an operation of run() belongs to.
PhaseOf(op) ==
    CASE op = "template" -> 0
      [] op = "ai" -> 1
      [] op \in {"logo exists", "logo search"} -> 2
      [] op = "html" -> 3
      [] OTHER -> 4

OpsOf(w, ops) == {n \in 1..Len(worker[w].ops) : worker[w].ops[n].op \in ops}

\* C1: in every run of PipelineWorker.run the operations follow the order of
\* the phases (template analysis, AI generation, logos, HTML, PDF): no operation
\* of an earlier phase comes after one of a later phase, the first logo
\* operation comes after the AI generation of every company of the list,
\* and compile_html_to_pdf is called at most once, after the HTML build of
\* every file of the run.
C1_PhasesInOrder ==
    \A w \in 1..Len(worker) :
        /\ \A m, n \in 1..Len(worker[w].ops) :
              m < n => PhaseOf(worker[w].ops[m].op) <= PhaseOf(worker[w].ops[n].op)
        /\ OpsOf(w, {"logo exists", "logo search", "html", "pdf"}) # {}
              => Cardinality(OpsOf(w, {"ai"})) = Len(worker[w].companies)
        /\ Cardinality(OpsOf(w, {"pdf"})) <= 1
        /\ OpsOf(w, {"pdf"}) # {}
              => /\ Cardinality(OpsOf(w, {"html"})) = Len(worker[w].json_files)
                 /\ \A k \in 1..Len(worker[w].json_files) :
                       \E n \in OpsOf(w, {"html"}) :
                           worker[w].ops[n].item = worker[w].json_files[k]

\* A run that went through all five phases, with two companies and two files.
C1_Witness ==
    \E w \in 1..Len(worker) :
        /\ worker[w].outcome = "finished"
        /\ Len(worker[w].companies) = 2
        /\ Cardinality(OpsOf(w, {"html"})) = 2
        /\ Cardinality(OpsOf(w, {"logo exists", "logo search"})) = 2
        /\ OpsOf(w, {"pdf"}) # {}

\* C2: at most one PipelineWorker thread is executing run() at any time.
C2_OneWorkerRunning ==
    Cardinality({w \in 1..Len(worker) : Running(w)}) <= 1

\* C9: every data file processed in phases 2 and 3 of a run belongs to a
\* company of the list of that run whose AI generation succeeded in that run.
C9_OnlyThisRunsCompanies ==
    \A w \in 1..Len(worker) :
        \A n \in OpsOf(w, {"logo exists", "logo search", "html"}) :
            worker[w].ops[n].item \in worker[w].succeeded

\* C11: every value a run emits on the progress signal is an integer between
\* 0 and 100, and the values of one run never decrease, for any company list
\* and any data files present in the output directory.
C11_ProgressValidPercentages ==
    \A w \in 1..Len(worker) :
        /\ \A n \in 1..Len(worker[w].emitted) :
              worker[w].emitted[n] >= 0 /\ worker[w].emitted[n] <= 100
        /\ \A m, n \in 1..Len(worker[w].emitted) :
              m < n => worker[w].emitted[m] <= worker[w].emitted[n]

\* A worker on which stop() has been called while run() was executing, and
\* which is not inside a work item that it began before.
StoppedBetweenItems(w) ==
    /\ w <= Len(worker)
    /\ Running(w)
    /\ ~worker[w].is_running
    /\ worker[w].pc \notin {"gen_work", "logo_work", "html_work"}

\* The work items a run has started: its operations but the template analysis.
WorkItems(ops) == LET IsItem(o) == o.op # "template" IN SelectSeq(ops, IsItem)

\* C12: once stop() has been called on a running PipelineWorker, the worker
\* starts no further work item (no AI generation, logo search, HTML build or
\* PDF compile) and never emits the finished signal for that run.
C12_StopHonoured ==
    [][\A w \in Workers :
          StoppedBetweenItems(w) =>
              /\ WorkItems(worker'[w].ops) = WorkItems(worker[w].ops)
              /\ worker'[w].outcome # "finished"]_vars

====
